---- MODULE Spec2Model ----
(***************************************************************************)
(* easy-rsync: a wrapper that drives rsync, records the files rsync        *)
(* reports as modified and the files that differ by checksum without       *)
(* being reported as modified.                                             *)
(*                                                                         *)
(* Text is modelled as a sequence of one-character strings, so that        *)
(* str.index, slicing, str.splitlines and str.join are computed character  *)
(* by character, as Python computes them.                                  *)
(***************************************************************************)
EXTENDS Integers, Sequences, FiniteSets, TLC

VARIABLES
    in_code,       \* change code of the line handed to _strip_action_prefix
    in_path,       \* path of the line handed to _strip_action_prefix
    result,        \* what _strip_action_prefix returned, Pending before the call
    pc,            \* where main is: the next step, "done" or "aborted"
    args,          \* the parsed command line (_parse_args)
    src_is_dir,    \* src.is_dir()
    dest_is_dir,   \* dest.is_dir()
    plain_out,     \* what rsync prints for src and dest without -c
    checksum_out,  \* what rsync prints for src and dest with -c
    src_tree,      \* the user's files under src: name -> content
    dest_tree,     \* the user's files under dest: name -> content
    fs,            \* the log files: path -> text, None when there is no file
    modified,      \* main's local `modified`, None while unbound
    log,           \* this run's rsync invocations and file writes, in order
    exit_code,     \* <<n>> once the process has exited with code n, <<>> before
    runs           \* how many times the program has been started

strip_vars == <<in_code, in_path, result>>
run_vars == <<pc, args, src_is_dir, dest_is_dir, plain_out, checksum_out,
              src_tree, dest_tree, fs, modified, log, exit_code, runs>>
vars == <<strip_vars, run_vars>>

(***************************************************************************)
(* Bounds                                                                  *)
(***************************************************************************)
MaxCodeLen == 3   \* characters of a change code, prefix stripping alone
MaxPathLen == 3   \* characters of a path, prefix stripping alone
MaxLines == 2     \* lines rsync prints in one pass, single verification run
MaxRuns == 2      \* times the program is started on the same directories

(***************************************************************************)
(* Text                                                                    *)
(***************************************************************************)
NL == "\n"
Chars == {"(", ")", " ", "a"}

RECURSIVE TextsUpTo(_)
TextsUpTo(n) ==
    IF n = 0 THEN {<<>>}
    ELSE LET shorter == TextsUpTo(n - 1)
         IN  shorter \cup {Append(t, c) : t \in shorter, c \in Chars}

None == <<"None">>
Pending == <<"Pending">>
ValueError == <<"ValueError">>

\* '(%i) %n' of _RSYNC_FLAGS: the line rsync prints for one changed file
OutFormat(code, path) == <<"(">> \o code \o <<")", " ">> \o path

\* s.index(') '): the first position (from 1) where ") " starts, 0 when
\* there is none (Python raises ValueError there)
AtSep(s, i) == i + 1 <= Len(s) /\ s[i] = ")" /\ s[i + 1] = " "

RECURSIVE IndexFrom(_, _)
IndexFrom(s, i) ==
    IF i + 1 > Len(s) THEN 0
    ELSE IF AtSep(s, i) THEN i
    ELSE IndexFrom(s, i + 1)

index(s) == IndexFrom(s, 1)

\* s.rindex(') '): the last position where ") " starts, 0 when there is none
RECURSIVE RIndexFrom(_, _)
RIndexFrom(s, i) ==
    IF i < 1 THEN 0
    ELSE IF AtSep(s, i) THEN i
    ELSE RIndexFrom(s, i - 1)

strip_last_occurrence(s) ==
    LET i == RIndexFrom(s, Len(s) - 1)
    IN  IF i = 0 THEN ValueError ELSE SubSeq(s, i + 2, Len(s))

\* the slice starting one character early: s[s.index(') ') + 1:]
strip_one_short(s) ==
    LET i == index(s)
    IN  IF i = 0 THEN ValueError ELSE SubSeq(s, i + 1, Len(s))

\* s[s.index(') ') + 2:]
_strip_action_prefix(s) ==
    LET i == index(s)
    IN  IF i = 0 THEN ValueError ELSE SubSeq(s, i + 2, Len(s))


\* str.splitlines(), for text whose only line boundary is "\n"
RECURSIVE FindNL(_, _)
FindNL(t, i) ==
    IF i > Len(t) THEN 0
    ELSE IF t[i] = NL THEN i
    ELSE FindNL(t, i + 1)

RECURSIVE splitlines(_)
splitlines(t) ==
    IF t = <<>> THEN <<>>
    ELSE LET k == FindNL(t, 1)
         IN  IF k = 0 THEN <<t>>
             ELSE <<SubSeq(t, 1, k - 1)>> \o splitlines(SubSeq(t, k + 1, Len(t)))

\* '\n'.join(items)
RECURSIVE join(_)
join(items) ==
    IF items = <<>> THEN <<>>
    ELSE IF Len(items) = 1 THEN items[1]
    ELSE items[1] \o <<NL>> \o join(Tail(items))

Range(f) == {f[x] : x \in DOMAIN f}

(***************************************************************************)
(* What rsync can print: one line per changed file, each ended by "\n".    *)
(* Besides '(%i) %n' lines rsync prints notices of its own ("skipping      *)
(* non-regular file ..."), which hold no ") ".                             *)
(***************************************************************************)
Codes == {<<">">>, <<"c">>}
Paths == {<<"a">>, <<")", " ", "a">>}
Notice == <<"s">>
Lines == {OutFormat(c, p) : c \in Codes, p \in Paths} \cup {Notice}

RECURSIVE StdoutUpTo(_)
StdoutUpTo(n) ==
    IF n = 0 THEN {<<>>}
    ELSE LET shorter == StdoutUpTo(n - 1)
         IN  shorter \cup {t \o l \o <<NL>> : t \in shorter, l \in Lines}

\* what rsync prints in the runs that follow one another on the same
\* directories: nothing, or one modified file; nothing, or that file and
\* another one differing by checksum
RunPlain == {<<>>, OutFormat(<<">">>, <<"a">>) \o <<NL>>}
RunChecksum ==
    {<<>>,
     OutFormat(<<"c">>, <<"a">>) \o <<NL>> \o OutFormat(<<"c">>, <<"b">>) \o <<NL>>}

(***************************************************************************)
(* The command line and the file system                                    *)
(***************************************************************************)
MODIFIED_TXT == "easy-rsync_modified.txt"
CONFLICTS_TXT == "easy-rsync_conflicts.txt"
Dirs == <<"src", "dest">>
MODIFIED_OVERRIDE == <<"m.txt">>
CONFLICT_OVERRIDE == <<"c.txt">>
OverridePaths == {MODIFIED_OVERRIDE, CONFLICT_OVERRIDE}
LogPaths ==
    {<<d, n>> : d \in Range(Dirs), n \in {MODIFIED_TXT, CONFLICTS_TXT}}
    \cup OverridePaths

Args ==
    [dry_run : BOOLEAN, verify_integrity : BOOLEAN, force : BOOLEAN,
     modified_file : {None, MODIFIED_OVERRIDE},
     conflict_file : {None, CONFLICT_OVERRIDE}]

UserFiles == {"f"}
Absent == "absent"

_RSYNC_FLAGS == <<"-rptgo", "-i", "--out-format=(%i) %n">>

ExitCodes == {0, 23}

(***************************************************************************)
(* _run_rsync                                                              *)
(***************************************************************************)
\* the command line _run_rsync builds
RsyncCmd(extra, dry_run) ==
    <<"rsync">> \o _RSYNC_FLAGS \o extra
    \o (IF dry_run THEN <<"--dry-run">> ELSE <<>>)
    \o <<"src/", "dest/">>

Has(cmd, flag) == \E i \in 1..Len(cmd) : cmd[i] = flag

\* _run_rsync without check=True: rsync's exit code is not looked at
_run_rsync_unchecked(step, extra, dry_run, rc) ==
    LET cmd == RsyncCmd(extra, dry_run)
        call == [kind |-> "rsync", step |-> step, cmd |-> cmd, rc |-> rc]
    IN  IF ~src_is_dir \/ ~dest_is_dir
        THEN [raised |-> TRUE, events |-> <<>>, stdout |-> <<>>]
        ELSE [raised |-> FALSE, events |-> <<call>>,
              stdout |-> IF Has(cmd, "-c") THEN checksum_out ELSE plain_out]

\* _run_rsync: _sanitize_path raises before rsync is started when a path is
\* not a directory; subprocess.run(check=True) raises when rsync exits
\* non-zero; otherwise rsync's standard output is returned.
_run_rsync(step, extra, dry_run, rc) ==
    LET cmd == RsyncCmd(extra, dry_run)
        call == [kind |-> "rsync", step |-> step, cmd |-> cmd, rc |-> rc]
    IN  IF ~src_is_dir \/ ~dest_is_dir
        THEN [raised |-> TRUE, events |-> <<>>, stdout |-> <<>>]
        ELSE IF rc # 0
        THEN [raised |-> TRUE, events |-> <<call>>, stdout |-> <<>>]
        ELSE [raised |-> FALSE, events |-> <<call>>,
              stdout |-> IF Has(cmd, "-c") THEN checksum_out ELSE plain_out]

\* What the rsync that was started can leave under dest. --dry-run changes
\* nothing. Otherwise a file of src missing from dest is created; a file
\* that differs is replaced when rsync's size and time comparison sees the
\* difference, unless --ignore-existing is given; a failed rsync may have
\* done any part of this. Files of dest that src lacks are left alone.
RsyncLeaves(cmd, rc) ==
    IF Has(cmd, "--dry-run") THEN {dest_tree}
    ELSE { t \in [UserFiles -> {Absent, "s", "d"}] :
             \A f \in UserFiles :
                \/ t[f] = dest_tree[f] /\ (rc # 0 \/ src_tree[f] = Absent
                                           \/ dest_tree[f] # Absent)
                \/ /\ t[f] = src_tree[f]
                   /\ src_tree[f] # Absent
                   /\ dest_tree[f] = Absent \/ ~Has(cmd, "--ignore-existing") }

Abort ==
    /\ pc' = "aborted"
    /\ exit_code' = <<1>>

(***************************************************************************)
(* The steps of main                                                       *)
(***************************************************************************)
\* the override ignored: d / name, for d in [src, dest]
LogFilesDefaultOnly(name, override) ==
    [i \in 1..Len(Dirs) |-> <<Dirs[i], name>>]

\* d / name if not override else override, for d in [src, dest]
LogFiles(name, override) ==
    [i \in 1..Len(Dirs) |-> IF override = None THEN <<Dirs[i], name>> ELSE override]

\* open(logfile, 'a') instead of open(logfile, 'w')
RECURSIVE WriteAllAppending(_, _, _)
WriteAllAppending(files, paths, data) ==
    IF paths = <<>> THEN files
    ELSE WriteAllAppending(
             [files EXCEPT ![paths[1]] = IF @ = None THEN data ELSE @ \o data],
             Tail(paths), data)

RECURSIVE WriteAll(_, _, _)
WriteAll(files, paths, data) ==
    IF paths = <<>> THEN files
    ELSE WriteAll([files EXCEPT ![paths[1]] = data], Tail(paths), data)

WriteEvents(step, paths, data) ==
    [i \in 1..Len(paths) |->
        [kind |-> "write", step |-> step, path |-> paths[i], data |-> data]]

\* the propagation step: _sync_new_files or _update_all_files
Propagate(step, extra) ==
    \E rc \in ExitCodes :
        LET r == _run_rsync(step, extra, args.dry_run, rc)
        IN  /\ log' = log \o r.events
            /\ IF r.events = <<>> THEN dest_tree' = dest_tree
               ELSE dest_tree' \in RsyncLeaves(r.events[1].cmd, rc)
            /\ IF r.raised THEN Abort
               ELSE pc' = "check_modified" /\ exit_code' = exit_code
            /\ UNCHANGED <<strip_vars, args, src_is_dir, dest_is_dir, plain_out,
                           checksum_out, src_tree, fs, modified, runs>>

SyncNewFilesNoExtra == <<>>

SyncNewFilesExtra == <<"--ignore-existing">>

_sync_new_files ==
    /\ pc = "main"
    /\ ~args.verify_integrity
    /\ ~args.force
    /\ Propagate("_sync_new_files", SyncNewFilesExtra)

_update_all_files ==
    /\ pc = "main"
    /\ ~args.verify_integrity
    /\ args.force
    /\ Propagate("_update_all_files", <<>>)

CheckNotDryRun == FALSE

CheckDryRun == TRUE

\* _check_modified, with what main does with its result
_check_modified ==
    /\ \/ pc = "main" /\ args.verify_integrity
       \/ pc = "check_modified"
    /\ \E rc \in ExitCodes :
        LET r == _run_rsync("_check_modified", <<>>, CheckDryRun, rc)
            conflicts == r.stdout
            paths == LogFiles(MODIFIED_TXT, args.modified_file)
        IN  /\ IF r.events = <<>> THEN dest_tree' = dest_tree
               ELSE dest_tree' \in RsyncLeaves(r.events[1].cmd, rc)
            /\ IF r.raised
               THEN /\ Abort
                    /\ log' = log \o r.events
                    /\ UNCHANGED <<fs, modified>>
               ELSE /\ fs' = WriteAll(fs, paths, conflicts)
                    /\ log' = log \o r.events
                              \o WriteEvents("_check_modified", paths, conflicts)
                    /\ IF args.verify_integrity
                       THEN /\ modified' = splitlines(conflicts)
                            /\ pc' = "verify_integrity"
                            /\ exit_code' = exit_code
                       ELSE /\ modified' = modified
                            /\ pc' = "done"
                            /\ exit_code' = <<0>>
    /\ UNCHANGED <<strip_vars, args, src_is_dir, dest_is_dir, plain_out,
                   checksum_out, src_tree, runs>>

VerifyDryRun == TRUE

\* an empty list handed over instead of main's `modified`
ModifiedNotPassed == <<>>

\* the modified list _verify_integrity filters against
ModifiedGiven == modified

\* the filter leaving the loop at the first explained line
RECURSIVE NotInUntilExplained(_, _)
NotInUntilExplained(conflicts, modmap) ==
    IF conflicts = <<>> THEN <<>>
    ELSE IF _strip_action_prefix(conflicts[1]) \in modmap THEN <<>>
    ELSE <<conflicts[1]>> \o NotInUntilExplained(Tail(conflicts), modmap)

\* [c for c in conflicts if _strip_action_prefix(c) not in modmap]
RECURSIVE NotIn(_, _)
NotIn(conflicts, modmap) ==
    IF conflicts = <<>> THEN <<>>
    ELSE (IF _strip_action_prefix(conflicts[1]) \notin modmap
          THEN <<conflicts[1]>> ELSE <<>>)
         \o NotIn(Tail(conflicts), modmap)

\* the filter comparing whole lines: [c for c in conflicts if c not in modified]
ConflictingItemsByLine(conflicts, given) ==
    LET Keep(c) == \A i \in 1..Len(given) : given[i] # c
    IN  SelectSeq(conflicts, Keep)

\* modmap = {_strip_action_prefix(m): True for m in modified}, then the filter
ConflictingItems(conflicts, given) ==
    LET modmap == {_strip_action_prefix(given[i]) : i \in 1..Len(given)}
    IN  NotIn(conflicts, modmap)

\* _verify_integrity, and main's return 0 after it
_verify_integrity ==
    /\ pc = "verify_integrity"
    /\ \E rc \in ExitCodes :
        LET r == _run_rsync("_verify_integrity", <<"-c">>, VerifyDryRun, rc)
            conflicts == splitlines(r.stdout)
            given == ModifiedGiven
            no_prefix ==
                \/ \E i \in 1..Len(given) : _strip_action_prefix(given[i]) = ValueError
                \/ \E i \in 1..Len(conflicts) :
                       _strip_action_prefix(conflicts[i]) = ValueError
            conflicting_items == ConflictingItems(conflicts, given)
            paths == LogFiles(CONFLICTS_TXT, args.conflict_file)
            data == join(conflicting_items)
        IN  /\ IF r.events = <<>> THEN dest_tree' = dest_tree
               ELSE dest_tree' \in RsyncLeaves(r.events[1].cmd, rc)
            /\ log' = log \o r.events
                      \o (IF r.raised \/ no_prefix THEN <<>>
                          ELSE WriteEvents("_verify_integrity", paths, data))
            /\ IF r.raised \/ no_prefix
               THEN Abort /\ fs' = fs
               ELSE /\ fs' = WriteAll(fs, paths, data)
                    /\ pc' = "done"
                    /\ exit_code' = <<0>>
    /\ UNCHANGED <<strip_vars, args, src_is_dir, dest_is_dir, plain_out,
                   checksum_out, src_tree, modified, runs>>

\* the program is started again on the same directories
NewRun ==
    /\ pc \in {"done", "aborted"}
    /\ runs < MaxRuns
    /\ runs' = runs + 1
    /\ pc' = "main"
    /\ args' \in Args
    /\ plain_out' \in RunPlain
    /\ checksum_out' \in RunChecksum
    /\ modified' = None
    /\ log' = <<>>
    /\ exit_code' = <<>>
    /\ UNCHANGED <<strip_vars, src_is_dir, dest_is_dir, src_tree, dest_tree, fs>>

(***************************************************************************)
(* Specifications                                                          *)
(***************************************************************************)
StripIdle == in_code = <<>> /\ in_path = <<>> /\ result = Pending

Started ==
    /\ pc = "main"
    /\ modified = None
    /\ log = <<>>
    /\ exit_code = <<>>
    /\ runs = 1
    /\ fs = [p \in LogPaths |-> None]

\* runs that follow one another on the same directories
Init ==
    /\ StripIdle
    /\ Started
    /\ args \in Args
    /\ src_is_dir \in BOOLEAN
    /\ dest_is_dir \in BOOLEAN
    /\ plain_out \in RunPlain
    /\ checksum_out \in RunChecksum
    /\ src_tree \in [UserFiles -> {Absent, "s"}]
    /\ dest_tree \in [UserFiles -> {Absent, "d"}]

Next ==
    \/ _sync_new_files
    \/ _update_all_files
    \/ _check_modified
    \/ _verify_integrity
    \/ NewRun

Spec == Init /\ [][Next]_vars

\* one --verify-integrity run, over everything rsync can print up to MaxLines
InitVerify ==
    /\ StripIdle
    /\ Started
    /\ args \in {a \in Args : a.verify_integrity /\ ~a.dry_run /\ ~a.force}
    /\ src_is_dir = TRUE
    /\ dest_is_dir = TRUE
    /\ plain_out \in StdoutUpTo(MaxLines)
    /\ checksum_out \in StdoutUpTo(MaxLines)
    /\ src_tree = [f \in UserFiles |-> "s"]
    /\ dest_tree = [f \in UserFiles |-> "d"]

NextVerify ==
    \/ _check_modified
    \/ _verify_integrity

SpecVerify == InitVerify /\ [][NextVerify]_vars

\* prefix stripping on its own: every code and path up to the bounds
RunIdle ==
    /\ Started
    /\ args = [dry_run |-> TRUE, verify_integrity |-> FALSE, force |-> FALSE,
               modified_file |-> None, conflict_file |-> None]
    /\ src_is_dir = TRUE
    /\ dest_is_dir = TRUE
    /\ plain_out = <<>>
    /\ checksum_out = <<>>
    /\ src_tree = [f \in UserFiles |-> Absent]
    /\ dest_tree = [f \in UserFiles |-> Absent]

InitStrip ==
    /\ RunIdle
    /\ in_code \in TextsUpTo(MaxCodeLen)
    /\ in_path \in TextsUpTo(MaxPathLen)
    /\ result = Pending

StripLine ==
    /\ result = Pending
    /\ result' = _strip_action_prefix(OutFormat(in_code, in_path))
    /\ UNCHANGED <<in_code, in_path, run_vars>>

NextStrip == StripLine

SpecStrip == InitStrip /\ [][NextStrip]_vars

(***************************************************************************)
(* Properties                                                              *)
(***************************************************************************)
Contains(s) == \E i \in 1..Len(s) : AtSep(s, i)

IsSuffix(p, s) ==
    /\ Len(p) <= Len(s)
    /\ SubSeq(s, Len(s) - Len(p) + 1, Len(s)) = p

\* C8: stripping "(code) path" returns the text after the first ") " of the
\* line, and that text is the path whenever the code holds no ") ".
C8_StripReturnsPath ==
    result # Pending =>
        LET line == OutFormat(in_code, in_path)
        IN  /\ \E i \in 1..Len(line) :
                 /\ AtSep(line, i)
                 /\ \A j \in 1..(i - 1) : ~AtSep(line, j)
                 /\ result = [k \in 1..(Len(line) - i - 1) |-> line[k + i + 1]]
            /\ (~Contains(in_code) => result = in_path)

C8_Witness ==
    /\ result # Pending
    /\ ~Contains(in_code)
    /\ Len(in_code) >= 2
    /\ Len(in_path) >= 2
    /\ result = in_path

\* C9 as stated: a path that holds ") " comes back different from the path.
C9_Original ==
    (result # Pending /\ Contains(in_path)) => result # in_path

\* C9 amended: a path that holds ") " comes back whole; the result differs
\* from the path only when the code holds ") ", and then it is the path with
\* a rest of the code in front of it, never a truncated path.
C9_PathWithSepKeptWhole ==
    (result # Pending /\ Contains(in_path)) =>
        /\ IsSuffix(in_path, result)
        /\ (result = in_path <=> ~Contains(in_code))

C9_Witness ==
    /\ result # Pending
    /\ Contains(in_path)
    /\ ~Contains(in_code)
    /\ Len(in_code) >= 1
    /\ result = in_path

(***************************************************************************)
(* The run, read back from the log and the file system                     *)
(***************************************************************************)
IsCall(e) == e.kind = "rsync"
IsWrite(e) == e.kind = "write"
Calls == SelectSeq(log, IsCall)
Writes == SelectSeq(log, IsWrite)
WrittenPaths == {Writes[i].path : i \in 1..Len(Writes)}
StepsRun == [i \in 1..Len(Calls) |-> Calls[i].step]
DefaultPaths(name) == {<<d, name>> : d \in Range(Dirs)}
ConflictPaths == Range(LogFiles(CONFLICTS_TXT, args.conflict_file))
PathsOf(lines) == {_strip_action_prefix(lines[i]) : i \in 1..Len(lines)}
Completed == pc = "done"
VerifyDone == Completed /\ args.verify_integrity

\* the lines of `lines` whose path no line of `mods` has, in their order
Unexplained(lines, mods) ==
    LET Keep(c) == _strip_action_prefix(c) \notin PathsOf(mods)
    IN  SelectSeq(lines, Keep)

\* C1: after a completed --verify-integrity run, no line of a written
\* conflict list has the path of a line of the modified list the check
\* returned, whatever the change codes of the two lines are.
C1_NoModifiedPathInConflicts ==
    VerifyDone =>
        \A p \in ConflictPaths :
            LET written == splitlines(fs[p])
            IN  \A i \in 1..Len(written) :
                    _strip_action_prefix(written[i]) \notin PathsOf(modified)

C1_Witness ==
    /\ VerifyDone
    /\ \E i \in 1..Len(modified) :
         \E c \in Range(splitlines(checksum_out)) :
            /\ c # modified[i]
            /\ _strip_action_prefix(c) = _strip_action_prefix(modified[i])
    /\ \A p \in ConflictPaths : fs[p] # <<>>

\* C2: after a completed --verify-integrity run, every line of the checksum
\* pass whose path is not in the modified list is in the written conflict
\* list, and the conflict list holds these lines in the order of the pass.
C2_UnexplainedKeptInOrder ==
    VerifyDone =>
        \A p \in ConflictPaths :
            LET written == splitlines(fs[p])
                reported == splitlines(checksum_out)
            IN  /\ \A i \in 1..Len(reported) :
                      _strip_action_prefix(reported[i]) \notin PathsOf(modified)
                          => reported[i] \in Range(written)
                /\ written = Unexplained(reported, modified)

C2_Witness ==
    /\ VerifyDone
    /\ Len(modified) >= 1
    /\ Len(splitlines(checksum_out)) >= 2
    /\ \A p \in ConflictPaths :
         /\ Len(splitlines(fs[p])) >= 1
         /\ Len(splitlines(fs[p])) < Len(splitlines(checksum_out))
         /\ splitlines(fs[p])[1] # splitlines(checksum_out)[1]

BothOverrides == args.modified_file # None /\ args.conflict_file # None
NoOverrides == args.modified_file = None /\ args.conflict_file = None

\* C3 as stated: with both override paths given, a completed run writes
\* exactly to those two paths, with and without --verify-integrity.
C3_Original ==
    (Completed /\ BothOverrides) =>
        WrittenPaths = {args.modified_file, args.conflict_file}

\* C3 amended: with two distinct override paths given, a completed run
\* writes the modified list to the --modified-file path and, only with
\* --verify-integrity, the conflict list to the --conflict-file path; without
\* --verify-integrity the --conflict-file path is not written. In both
\* modes no step of the run creates or changes a default-named file.
C3_OverridesUsedVerbatim ==
    /\ [](  (Completed /\ BothOverrides) =>
              /\ WrittenPaths = IF args.verify_integrity
                                THEN {args.modified_file, args.conflict_file}
                                ELSE {args.modified_file}
              /\ fs[args.modified_file] = plain_out
              /\ args.verify_integrity =>
                    fs[args.conflict_file] =
                        join(Unexplained(splitlines(checksum_out),
                                         splitlines(plain_out))) )
    /\ [][ BothOverrides =>
              \A n \in {MODIFIED_TXT, CONFLICTS_TXT} :
                 \A p \in DefaultPaths(n) : fs'[p] = fs[p] ]_vars

C3_Witness ==
    /\ Completed
    /\ BothOverrides
    /\ ~args.verify_integrity
    /\ fs[args.modified_file] # <<>>
    /\ fs[args.conflict_file] = None
    /\ \A n \in {MODIFIED_TXT, CONFLICTS_TXT} :
         \A p \in DefaultPaths(n) : fs[p] = None

\* C4 as stated: a completed run without override paths writes all four
\* default-named files, with and without --verify-integrity.
C4_Original ==
    (Completed /\ NoOverrides) =>
        WrittenPaths = DefaultPaths(MODIFIED_TXT) \cup DefaultPaths(CONFLICTS_TXT)

\* C4 amended: a completed run without override paths overwrites the
\* modified list in source and destination in either mode, and the conflict
\* list in source and destination only with --verify-integrity; a run
\* without --verify-integrity writes no conflict list, so the two conflict
\* files stay as the earlier runs left them. Every file a run writes holds
\* only that run's list, and the source copy of each list always equals the
\* destination copy.
C4_DefaultLogsOverwritten ==
    /\ \A n \in {MODIFIED_TXT, CONFLICTS_TXT} :
          fs[<<"src", n>>] = fs[<<"dest", n>>]
    /\ (Completed /\ NoOverrides) =>
          /\ \A p \in DefaultPaths(MODIFIED_TXT) : fs[p] = plain_out
          /\ IF args.verify_integrity
             THEN /\ WrittenPaths = DefaultPaths(MODIFIED_TXT)
                                    \cup DefaultPaths(CONFLICTS_TXT)
                  /\ \A p \in DefaultPaths(CONFLICTS_TXT) :
                        fs[p] = join(Unexplained(splitlines(checksum_out),
                                                 splitlines(plain_out)))
             ELSE WrittenPaths = DefaultPaths(MODIFIED_TXT)

C4_Witness ==
    /\ Completed
    /\ NoOverrides
    /\ runs = 2
    /\ ~args.verify_integrity
    /\ fs[<<"dest", MODIFIED_TXT>>] = plain_out
    /\ fs[<<"dest", CONFLICTS_TXT>>] \notin {None, <<>>}
    /\ checksum_out = <<>>

FailedCall(e) == IsCall(e) /\ e.rc # 0
DryRunCall(e) == IsCall(e) /\ Has(e.cmd, "--dry-run")
PropagationSteps == {"_sync_new_files", "_update_all_files"}

\* C5: a run aborts with a non-zero exit code at the first rsync call that
\* cannot be made (a path is not a directory) or that exits non-zero:
\* nothing is run or written after it; the exit code is 0 only when both
\* paths are directories and every rsync call exited 0.
C5_AbortOnFailure ==
    /\ (pc # "main" /\ (~src_is_dir \/ ~dest_is_dir)) =>
          pc = "aborted" /\ log = <<>>
    /\ \A i \in 1..Len(log) :
          FailedCall(log[i]) => i = Len(log) /\ pc = "aborted"
    /\ pc = "aborted" <=> exit_code = <<1>>
    /\ pc = "done" <=> exit_code = <<0>>
    /\ pc \notin {"aborted", "done"} <=> exit_code = <<>>
    /\ exit_code = <<0>> =>
          /\ src_is_dir
          /\ dest_is_dir
          /\ \A i \in 1..Len(Calls) : Calls[i].rc = 0

C5_Witness ==
    /\ pc = "aborted"
    /\ exit_code = <<1>>
    /\ Len(log) = 4
    /\ IsWrite(log[3])
    /\ FailedCall(log[4])

\* C6: a completed run made exactly two steps, fixed by the mode: with
\* --verify-integrity the modification check, then the integrity
\* verification filtering against the list that check returned; otherwise
\* one propagation (full with --force, new files only without) and then
\* the modification check. Each step ran rsync once and then wrote its list.
C6_TwoStepsInOrder ==
    Completed =>
        /\ StepsRun =
             IF args.verify_integrity
             THEN <<"_check_modified", "_verify_integrity">>
             ELSE <<IF args.force THEN "_update_all_files" ELSE "_sync_new_files",
                    "_check_modified">>
        /\ [i \in 1..Len(log) |-> <<log[i].kind, log[i].step>>] =
             IF args.verify_integrity
             THEN << <<"rsync", "_check_modified">>, <<"write", "_check_modified">>,
                     <<"write", "_check_modified">>,
                     <<"rsync", "_verify_integrity">>, <<"write", "_verify_integrity">>,
                     <<"write", "_verify_integrity">> >>
             ELSE << <<"rsync", StepsRun[1]>>,
                     <<"rsync", "_check_modified">>, <<"write", "_check_modified">>,
                     <<"write", "_check_modified">> >>
        /\ args.verify_integrity =>
             /\ modified = splitlines(log[2].data)
             /\ log[5].data =
                  join(Unexplained(splitlines(checksum_out), splitlines(log[2].data)))

C6_Witness ==
    /\ Completed
    /\ args.verify_integrity
    /\ args.force
    /\ Len(log) = 6
    /\ log[2].data # <<>>
    /\ log[5].data # <<>>
    /\ log[5].data # checksum_out

\* C7: without --force and --verify-integrity the propagation runs rsync
\* with --ignore-existing and leaves every file that exists under the
\* destination as it is; a file that exists under the destination is
\* replaced only by the propagation of a run with --force.
C7_NewOnlyKeepsExisting ==
    /\ [](\A i \in 1..Len(Calls) :
            Calls[i].step = "_sync_new_files" =>
                Has(Calls[i].cmd, "--ignore-existing"))
    /\ [][ (pc = "main" /\ ~args.force /\ ~args.verify_integrity) =>
              /\ pc' \in {"check_modified", "aborted"}
              /\ \A f \in UserFiles :
                    dest_tree[f] # Absent => dest_tree'[f] = dest_tree[f] ]_vars
    /\ [][ (\E f \in UserFiles :
               dest_tree[f] # Absent /\ dest_tree'[f] # dest_tree[f]) =>
              pc = "main" /\ args.force /\ ~args.verify_integrity ]_vars

C7_Witness ==
    /\ pc = "check_modified"
    /\ ~args.force
    /\ ~args.dry_run
    /\ Len(Calls) = 1
    /\ Calls[1].rc = 0
    /\ ~DryRunCall(Calls[1])
    /\ \E f \in UserFiles : src_tree[f] = "s" /\ dest_tree[f] = "d"

\* C10: in one run rsync is started without --dry-run at most once, and
\* only by the propagation of a run with neither --dry-run nor
\* --verify-integrity; the modification check and the integrity check
\* always pass --dry-run; the files under the destination change only in
\* that propagation, and the files under the source never.
C10_OnlyPropagationWrites ==
    /\ [](/\ Cardinality({i \in 1..Len(Calls) : ~DryRunCall(Calls[i])}) <= 1
          /\ \A i \in 1..Len(Calls) :
                ~DryRunCall(Calls[i]) =>
                    /\ Calls[i].step \in PropagationSteps
                    /\ ~args.dry_run
                    /\ ~args.verify_integrity)
    /\ [][ /\ src_tree' = src_tree
           /\ dest_tree' # dest_tree =>
                /\ pc = "main"
                /\ ~args.dry_run
                /\ ~args.verify_integrity ]_vars

C10_Witness ==
    /\ Completed
    /\ Len(Calls) = 2
    /\ ~DryRunCall(Calls[1])
    /\ DryRunCall(Calls[2])
    /\ \E f \in UserFiles : src_tree[f] = "s" /\ dest_tree[f] = "s"
====
